---- MODULE Spec2Model ----
(***************************************************************************)
(* Model of the currencies service (jxs/currencies): the sled-backed       *)
(* store of src/src/db.rs (date_as_key, init, bootstrap_new, update and    *)
(* the Db read operations) together with the remote supplier of            *)
(* src/src/fetcher.rs.                                                     *)
(*                                                                         *)
(* A calendar date string "YYYY-MM-DD" is the triple <<y, m, d>>; a        *)
(* chrono NaiveDate is its day number since 1970-01-01.  A sled key is a   *)
(* tuple of bytes, a sled value is a tagged blob (bincode).                *)
(***************************************************************************)
EXTENDS Integers, Sequences, FiniteSets, TLC

(***************************************************************************)
(* Bounds of the model.                                                    *)
(***************************************************************************)
\* number of dates the remote source holds at one time
MaxPublished == 3
\* number of Db::put calls on a store that is put to and queried directly
MaxPuts == 3
\* number of Dates in a sequence handed to try_reply directly
MaxReplyDates == 2

(***************************************************************************)
(* Program constants.                                                      *)
(***************************************************************************)
\* Duration::days(90) of the full-history arm
HistDays == 90
\* Duration::days(90) of the last-90-days arm
Last90Days == 90
\* Duration::days(1) of the last-90-days arm
OneDay == 1
\* the calendar window served by ECB_HIST_LAST_90
WindowDays == 90
\* seconds of one day: and_hms(0, 0, 0).timestamp()
SecondsPerDay == 86400
\* 1999-01-04, the first ECB reference date, as days since 1970-01-01
FirstDay == 10595
\* width of i64::to_be_bytes
KeyWidth == 8

\* steps by which the remote latest date advances at one publication
GapChoices == {1, 89, 90, 91}

\* the DateParseError of a date string that does not parse; no date of the model
NoDate == -99999999

(***************************************************************************)
(* Calendar: NaiveDate::from_str and NaiveDate::to_string.                 *)
(***************************************************************************)
IsLeap(y) == (y % 4 = 0 /\ y % 100 # 0) \/ y % 400 = 0

DaysInMonth(y, m) ==
    IF m = 2 THEN (IF IsLeap(y) THEN 29 ELSE 28)
    ELSE IF m \in {4, 6, 9, 11} THEN 30 ELSE 31

ValidYMD(s) ==
    /\ Len(s) = 3
    /\ s[2] \in 1..12
    /\ s[3] >= 1 /\ s[3] <= DaysInMonth(s[1], s[2])

\* proleptic Gregorian <<y, m, d>> -> days since 1970-01-01
DaysFromCivil(s) ==
    LET y   == IF s[2] <= 2 THEN s[1] - 1 ELSE s[1]
        era == y \div 400
        yoe == y - era * 400
        mp  == IF s[2] > 2 THEN s[2] - 3 ELSE s[2] + 9
        doy == (153 * mp + 2) \div 5 + s[3] - 1
        doe == yoe * 365 + yoe \div 4 - yoe \div 100 + doy
    IN  era * 146097 + doe - 719468

\* days since 1970-01-01 -> <<y, m, d>>
CivilFromDays(n) ==
    LET z   == n + 719468
        era == z \div 146097
        doe == z - era * 146097
        yoe == (doe - doe \div 1460 + doe \div 36524 - doe \div 146096) \div 365
        doy == doe - (365 * yoe + yoe \div 4 - yoe \div 100)
        mp  == (5 * doy + 2) \div 153
        d   == doy - (153 * mp + 2) \div 5 + 1
        m   == IF mp < 10 THEN mp + 3 ELSE mp - 9
        y   == yoe + era * 400
    IN  << (IF m <= 2 THEN y + 1 ELSE y), m, d >>

\* NaiveDate::from_str: NoDate stands for the parse error
NaiveDate_from_str(s) == IF ValidYMD(s) THEN DaysFromCivil(s) ELSE NoDate

\* NaiveDate::to_string
NaiveDate_to_string(n) == CivilFromDays(n)

\* Date::value_as_date
value_as_date(date) == NaiveDate_from_str(date.value)

(***************************************************************************)
(* Key codec.                                                              *)
(***************************************************************************)
RECURSIVE BeBytes(_, _)
\* the low w bytes of the two's complement of n, most significant first
BeBytes(n, w) ==
    IF w = 0 THEN << >> ELSE Append(BeBytes(n \div 256, w - 1), n % 256)

\* the bytes of the magnitude of n, the sign dropped
to_be_bytes_of_magnitude(n) == BeBytes(IF n < 0 THEN 0 - n ELSE n, KeyWidth)

to_be_bytes(n) == BeBytes(n, KeyWidth)

\* date_as_key on a date string that parses
date_as_key(s) == to_be_bytes(NaiveDate_from_str(s) * SecondsPerDay)

\* b"current"
CurrentKey == << 99, 117, 114, 114, 101, 110, 116 >>

(***************************************************************************)
(* Snapshots.                                                              *)
(***************************************************************************)
EUR == [name |-> "EUR", rate |-> 1]
USD == [name |-> "USD", rate |-> 2]

\* the currency lists a remote payload may carry for one date
Payloads == { << USD >>, << EUR, USD >> }

\* the snapshot stored as fetched, with no EUR entry added
push_eur_skipped(date) == date

\* date.currencies.push(Currency { name: "EUR", rate: 1.0 })
push_eur(date) == [date EXCEPT !.currencies = Append(@, EUR)]

(***************************************************************************)
(* bincode and sled.                                                       *)
(***************************************************************************)
serialize_date(date) == [kind |-> "Date", body |-> date]
serialize_bytes(key) == [kind |-> "Bytes", body |-> key]

\* an insert that keeps the value of a key that is present
put_if_absent(s, key, blob) ==
    [k \in (DOMAIN s) \cup {key} |-> IF k \in DOMAIN s THEN s[k] ELSE blob]

\* Db::put: sled insert, an upsert of the serialized value
put(s, key, blob) ==
    [k \in (DOMAIN s) \cup {key} |-> IF k = key THEN blob ELSE s[k]]

\* Db::get::<T>: None when the key is absent, "err" when the blob is no T
get(s, key, kind) ==
    IF key \notin DOMAIN s THEN [tag |-> "none"]
    ELSE IF s[key].kind # kind THEN [tag |-> "err"]
    ELSE [tag |-> "some", val |-> s[key].body]

\* get_current_rates answering with an empty default Date when the pointer
\* has no target
get_current_rates_or_default(s) ==
    LET cur == get(s, CurrentKey, "Bytes")
    IN  IF cur.tag = "err" THEN [tag |-> "err", why |-> "deserialize"]
        ELSE IF cur.tag = "none" THEN [tag |-> "err", why |-> "no_current_key"]
        ELSE LET d == get(s, cur.val, "Date")
             IN  IF d.tag = "err" THEN [tag |-> "err", why |-> "deserialize"]
                 ELSE IF d.tag = "none"
                      THEN [tag |-> "ok",
                            val |-> [value |-> << 1999, 1, 4 >>, currencies |-> << >>]]
                      ELSE [tag |-> "ok", val |-> d.val]

\* Db::get_current_rates
get_current_rates(s) ==
    LET cur == get(s, CurrentKey, "Bytes")
    IN  IF cur.tag = "err" THEN [tag |-> "err", why |-> "deserialize"]
        ELSE IF cur.tag = "none" THEN [tag |-> "err", why |-> "no_current_key"]
        ELSE LET d == get(s, cur.val, "Date")
             IN  IF d.tag = "err" THEN [tag |-> "err", why |-> "deserialize"]
                 ELSE IF d.tag = "none"
                      THEN [tag |-> "err", why |-> "no_current_rates"]
                      ELSE [tag |-> "ok", val |-> d.val]

\* the order of sled keys: unsigned bytes, lexicographic
LexLess(a, b) ==
    \E i \in 1..(Len(a) + 1) :
        /\ \A j \in 1..(i - 1) : j <= Len(b) /\ a[j] = b[j]
        /\ \/ i > Len(a) /\ i <= Len(b)
           \/ i <= Len(a) /\ i <= Len(b) /\ a[i] < b[i]

LexLeq(a, b) == a = b \/ LexLess(a, b)

RECURSIVE KeysAscending(_)
\* the keys of a set in the order a sled iterator yields them
KeysAscending(K) ==
    IF K = {} THEN << >>
    ELSE LET m == CHOOSE k \in K : \A o \in K : LexLeq(k, o)
         IN  << m >> \o KeysAscending(K \ {m})

\* get_day_rates turning an absent date into an error
get_day_rates_absent_is_error(s, day) ==
    IF ~ValidYMD(day) THEN [tag |-> "err"]
    ELSE IF date_as_key(day) \notin DOMAIN s THEN [tag |-> "err"]
    ELSE get(s, date_as_key(day), "Date")

\* Db::get_day_rates: day is a date string
get_day_rates(s, day) ==
    IF ~ValidYMD(day) THEN [tag |-> "err"]
    ELSE get(s, date_as_key(day), "Date")

\* Db::get_range_rates: start_at and end_at are NaiveDates; db.range over
\* range_start..=range_end, every value deserialized as a Date
get_range_rates(s, start_at, end_at) ==
    LET range_start == date_as_key(NaiveDate_to_string(start_at))
        range_end   == date_as_key(NaiveDate_to_string(end_at))
        keys == KeysAscending({ k \in DOMAIN s :
                                  LexLeq(range_start, k) /\ LexLeq(k, range_end) })
    IN  IF \E i \in 1..Len(keys) : s[keys[i]].kind # "Date"
        THEN [tag |-> "err"]
        ELSE [tag |-> "ok", val |-> [i \in 1..Len(keys) |-> s[keys[i]].body]]

(***************************************************************************)
(* The remote supplier.                                                    *)
(***************************************************************************)
SetMax(S) == CHOOSE x \in S : \A y \in S : y <= x

RECURSIVE AscSeq(_)
\* the elements of a finite set of integers, ascending
AscSeq(S) ==
    IF S = {} THEN << >>
    ELSE LET x == SetMax(S) IN Append(AscSeq(S \ {x}), x)

RECURSIVE Reverse(_)
Reverse(s) == IF s = << >> THEN << >> ELSE Append(Reverse(Tail(s)), Head(s))

FeedOrders == {"oldest_first", "newest_first"}

\* one <Cube time="..."> element per day of `days`, in the order of the feed
Feed(pub, days, ord) ==
    LET asc == AscSeq(days)
        seq == IF ord = "oldest_first" THEN asc ELSE Reverse(asc)
    IN  [k \in 1..Len(seq) |->
            [value |-> NaiveDate_to_string(seq[k]), currencies |-> pub[seq[k]]]]

\* fetch(ECB_HIST)
fetch_hist(pub, ord) == Feed(pub, DOMAIN pub, ord)

\* fetch(ECB_HIST_LAST_90)
fetch_last90(pub, ord) ==
    Feed(pub, {d \in DOMAIN pub : d > SetMax(DOMAIN pub) - WindowDays}, ord)

\* fetch(ECB_DAILY): the one latest day
fetch_daily_feed(pub) ==
    IF DOMAIN pub = {} THEN << >> ELSE Feed(pub, {SetMax(DOMAIN pub)}, "oldest_first")

\* fetch_daily: dates.pop(), the last element, or the FetcherError
fetch_daily(pub) ==
    LET f == fetch_daily_feed(pub)
    IN  IF f = << >> THEN [tag |-> "err"] ELSE [tag |-> "ok", val |-> f[Len(f)]]

(***************************************************************************)
(* update: the comparison and the choice of what to fetch.                 *)
(***************************************************************************)
\* the comparison with Less taken for Equal
cmp_less_as_equal(a, b) == IF a > b THEN "Greater" ELSE "Equal"

\* a comparison that takes equal dates for a newer remote date
cmp_equal_as_greater(a, b) == IF a >= b THEN "Greater" ELSE "Less"

\* current.cmp(&db_current)
cmp(a, b) == IF a = b THEN "Equal" ELSE IF a > b THEN "Greater" ELSE "Less"

\* match current - db_current { ... }: which endpoint the tick fetches
fetch_strategy(d) ==
    IF d > HistDays THEN "hist"
    ELSE IF d < Last90Days /\ d > OneDay THEN "last90"
    ELSE "daily"

\* the test of the loop with >= in place of >
is_newer_or_equal(date, dbc) == value_as_date(date) >= dbc

\* if date.value_as_date()? > db_current
is_newer(date, dbc) == value_as_date(date) > dbc

\* the loop of update without .rev()
iter_mut_forward(fetched) == fetched

\* dates.iter_mut().rev(): the fetched dates in the order the loop visits them
iter_mut_rev(fetched) == Reverse(fetched)

\* a turn of the loop that puts the snapshot and leaves `current` as it is
update_puts_snapshot_only(date) ==
    << [key  |-> date_as_key(date.value),
        blob |-> serialize_date(push_eur(date)),
        op   |-> "put"],
       [key  |-> date_as_key(date.value),
        blob |-> serialize_date(push_eur(date)),
        op   |-> "put"] >>

\* the two puts of one turn with the pointer written first
update_puts_pointer_first(date) ==
    << [key  |-> CurrentKey,
        blob |-> serialize_bytes(date_as_key(date.value)),
        op   |-> "set_current"],
       [key  |-> date_as_key(date.value),
        blob |-> serialize_date(push_eur(date)),
        op   |-> "put"] >>

\* the two puts of one turn of the loop of update, in program order
update_puts(date) ==
    << [key  |-> date_as_key(date.value),
        blob |-> serialize_date(push_eur(date)),
        op   |-> "put"],
       [key  |-> CurrentKey,
        blob |-> serialize_bytes(date_as_key(date.value)),
        op   |-> "set_current"] >>

(***************************************************************************)
(* bootstrap_new: the date the pointer is set to.                          *)
(***************************************************************************)
\* the pointer taken from dates.last() instead
current_date_last(fetched) == fetched[Len(fetched)]

\* let current_date = dates.first()
current_date(fetched) == fetched[1]

(***************************************************************************)
(* The HTTP API: history_handler and try_reply of src/src/api.rs.  An      *)
(* Option is the record [some |-> FALSE] or [some |-> TRUE, val |-> v];    *)
(* params.symbols holds the list split(',') makes of the parameter; a      *)
(* quotient rate / base_rate is the pair << rate, base_rate >>.            *)
(***************************************************************************)
None == [some |-> FALSE]
Some(v) == [some |-> TRUE, val |-> v]

\* warp::reject::custom(Reject::..)
Rejected(why) == [tag |-> "reject", why |-> why]

\* date.currencies.iter().any(|c| &c.name == s)
has_currency(date, name) ==
    \E i \in 1..Len(date.currencies) : date.currencies[i].name = name

\* date.currencies.iter().find(|b| &b.name == base).map(|b| b.rate)
find_rate(date, name) ==
    LET i == CHOOSE j \in 1..Len(date.currencies) :
                 /\ date.currencies[j].name = name
                 /\ \A h \in 1..(j - 1) : date.currencies[h].name # name
    IN  date.currencies[i].rate

\* the HashMap filled by `for currency in date.currencies`: an insert under
\* a name that is present replaces the rate
currencies_map(date, symbols, base_rate) ==
    LET kept == { i \in 1..Len(date.currencies) :
                    \/ symbols = << >>
                    \/ \E j \in 1..Len(symbols) : symbols[j] = date.currencies[i].name }
    IN  [n \in { date.currencies[i].name : i \in kept } |->
            LET last == SetMax({ i \in kept : date.currencies[i].name = n })
            IN  << date.currencies[last].rate, base_rate >>]

\* try_reply once dates.get(0) has answered Some(first)
reply_of(dates, params) ==
    LET first   == dates[1]
        symbols == IF params.symbols.some THEN params.symbols.val ELSE << >>
    IN  IF \E j \in 1..Len(symbols) : ~has_currency(first, symbols[j])
        THEN Rejected("InvalidSymbol")
        ELSE IF /\ params.base.some
                /\ \E k \in 1..Len(dates) : ~has_currency(dates[k], params.base.val)
        THEN Rejected("InvalidBase")
        ELSE
        LET base_rate(date) == IF params.base.some
                               THEN find_rate(date, params.base.val) ELSE 1
            rates == [v \in { dates[k].value : k \in 1..Len(dates) } |->
                         LET last == SetMax({ k \in 1..Len(dates) : dates[k].value = v })
                         IN  currencies_map(dates[last], symbols, base_rate(dates[last]))]
            base  == IF params.base.some THEN params.base.val ELSE "EUR"
        IN  IF Cardinality(DOMAIN rates) < 2
            THEN [tag |-> "ok",
                  body |-> [rates |-> rates[first.value], base |-> base,
                            date |-> first.value]]
            ELSE [tag |-> "ok",
                  body |-> [rates |-> rates, base |-> base,
                            start_at |-> params.start_at, end_at |-> params.end_at]]

\* try_reply answering from an empty sequence with an empty reply
try_reply_from_nothing(dates, params) ==
    IF dates = << >>
    THEN [tag |-> "ok",
          body |-> [rates |-> << >>, base |-> "EUR",
                    start_at |-> params.start_at, end_at |-> params.end_at]]
    ELSE reply_of(dates, params)

\* try_reply: dates.get(0).ok_or_else(..)? and the rest
try_reply(dates, params) ==
    IF dates = << >> THEN Rejected("Unhandled")
    ELSE reply_of(dates, params)

\* the handler with no test of the order of its boundaries
range_never_rejected(start_at, end_at) == FALSE

\* history_handler: if end_at < start_at
range_rejected(start_at, end_at) == end_at < start_at

\* history_handler; called lists the calls of get_range_rates it made
history_handler(s, params) ==
    IF ~(params.start_at.some /\ params.end_at.some)
    THEN [called |-> << >>, reply |-> Rejected("MissingDateBoundaries")]
    ELSE
    LET start_at == NaiveDate_from_str(params.start_at.val)
        end_at   == NaiveDate_from_str(params.end_at.val)
    IN  IF start_at = NoDate
        THEN [called |-> << >>, reply |-> Rejected("InvalidDateFormat(start_at)")]
        ELSE IF end_at = NoDate
        THEN [called |-> << >>, reply |-> Rejected("InvalidDateFormat(end_at)")]
        ELSE IF start_at < FirstDay
        THEN [called |-> << >>, reply |-> Rejected("PastDate(start_at)")]
        ELSE IF range_rejected(start_at, end_at)
        THEN [called |-> << >>, reply |-> Rejected("InvalidDateRange")]
        ELSE LET currencies == get_range_rates(s, start_at, end_at)
             IN  [called |-> << << start_at, end_at >> >>,
                  reply  |-> IF currencies.tag = "err" THEN Rejected("Unhandled")
                             ELSE try_reply(currencies.val, params)]

(***************************************************************************)
(* State.                                                                  *)
(***************************************************************************)
VARIABLES
    path_exists,  \* path.exists(): a sled directory is at the configured path
    store,        \* the sled tree: key -> blob
    published,    \* the remote source: day -> currencies of that day
    feed_order,   \* the remote source: the order of the dates in its feeds
    payload,      \* the remote source: the currencies its feeds carry per day
    retracted,    \* the remote source: it has withdrawn its latest date
    pc,           \* where the writer (init / bootstrap_new / update) is
    dates,        \* the fetched dates, in the order the running loop visits them
    idx,          \* the element of `dates` the loop is at
    current,      \* update: the remote latest date
    db_current,   \* update: the local current date read at the start
    strategy,     \* update: the endpoint chosen by the match
    run,          \* the procedure that ran last: none, bootstrap, update
    result,       \* its outcome: none (running), ok, err
    log,          \* the writes of the running procedure, in order
    r_pc,         \* a reader inside get_current_rates
    r_ptr,        \* reader: the key read from `current`
    r_result,     \* reader: outcome of its last get_current_rates
    dirty,        \* sled holds writes that no flush has followed
    fn_in,        \* a call of a function of the store or of the codec: the arguments
    fn_out        \* that call: the value returned

vars == << path_exists, store, published, feed_order, payload, retracted, pc,
           dates, idx, current, db_current, strategy, run, result, log,
           r_pc, r_ptr, r_result, dirty, fn_in, fn_out >>

writer_vars == << pc, dates, idx, current, db_current, strategy, run, result, log >>
reader_vars == << r_pc, r_ptr, r_result >>

BootPcs == {"bootstrap_new", "boot_put_current", "boot_loop"}
UpdatePcs == {"upd_fetch", "upd_loop", "upd_put_current"}

remote_vars == << published, feed_order, payload, retracted >>
query_vars == << fn_in, fn_out >>

Init ==
    /\ path_exists = FALSE
    /\ store = << >>
    /\ published = << >>
    /\ feed_order \in FeedOrders
    /\ payload \in Payloads
    /\ retracted = FALSE
    /\ dirty = FALSE
    /\ fn_in = [op |-> "none"]
    /\ fn_out = [tag |-> "none"]
    /\ pc = "start"
    /\ dates = << >>
    /\ idx = 0
    /\ current = NoDate
    /\ db_current = NoDate
    /\ strategy = "none"
    /\ run = "none"
    /\ result = "none"
    /\ log = << >>
    /\ r_pc = "idle"
    /\ r_ptr = << >>
    /\ r_result = "none"

(***************************************************************************)
(* The remote source publishes a new latest date.                          *)
(***************************************************************************)
Publish ==
    /\ ~retracted
    /\ Cardinality(DOMAIN published) < MaxPublished
    /\ \E g \in GapChoices :
          LET day == IF DOMAIN published = {} THEN FirstDay
                     ELSE SetMax(DOMAIN published) + g
          IN  published' = [d \in (DOMAIN published) \cup {day} |->
                               IF d = day THEN payload ELSE published[d]]
    /\ UNCHANGED << query_vars, path_exists, store, dirty, feed_order, payload,
                    retracted, writer_vars, reader_vars >>

\* the remote source serves an older state: after its last publication,
\* and between two procedures of the writer, its latest date is withdrawn;
\* the source publishes nothing after that
Retract ==
    /\ ~retracted
    /\ pc = "idle"
    /\ Cardinality(DOMAIN published) = MaxPublished
    /\ published' = [d \in (DOMAIN published) \ {SetMax(DOMAIN published)} |->
                        published[d]]
    /\ retracted' = TRUE
    /\ UNCHANGED << query_vars, path_exists, store, dirty, feed_order, payload,
                    writer_vars, reader_vars >>

(***************************************************************************)
(* init and bootstrap_new.                                                 *)
(***************************************************************************)
\* init: open the store found at the path, bootstrap otherwise
init ==
    /\ pc = "start"
    /\ IF path_exists
       THEN /\ pc' = "idle"
            /\ UNCHANGED << run, result, log >>
       ELSE /\ pc' = "bootstrap_new"
            /\ run' = "bootstrap"
            /\ result' = "none"
            /\ log' = << >>
    /\ UNCHANGED << query_vars, path_exists, store, dirty, remote_vars, dates, idx, current,
                    db_current, strategy, reader_vars >>

\* bootstrap_new with Db::open moved before fetch_hist: the store is there
\* when the fetch fails
BootstrapFetch_open_first ==
    /\ pc = "bootstrap_new"
    /\ path_exists' = TRUE
    /\ \/ /\ fetch_hist(published, feed_order) # << >>
          /\ dates' = fetch_hist(published, feed_order)
          /\ pc' = "boot_put_current"
          /\ UNCHANGED result
       \/ /\ pc' = "failed"
          /\ result' = "err"
          /\ UNCHANGED dates
    /\ UNCHANGED << query_vars, store, dirty, remote_vars, idx, current, db_current, strategy,
                    run, log, reader_vars >>

\* bootstrap_new up to Db::open: fetch_hist, dates.first(), open
BootstrapFetch ==
    /\ pc = "bootstrap_new"
    /\ \/ /\ fetch_hist(published, feed_order) # << >>
          /\ dates' = fetch_hist(published, feed_order)
          /\ path_exists' = TRUE
          /\ pc' = "boot_put_current"
          /\ UNCHANGED result
       \/ \* the fetch fails, or the history is empty
          /\ pc' = "failed"
          /\ result' = "err"
          /\ UNCHANGED << dates, path_exists >>
    /\ UNCHANGED << query_vars, store, dirty, remote_vars, idx, current, db_current, strategy,
                    run, log, reader_vars >>

\* db.put(b"current", &date_as_key(&current_date.value)?)
BootstrapPutCurrent ==
    /\ pc = "boot_put_current"
    /\ store' = put(store, CurrentKey,
                    serialize_bytes(date_as_key(current_date(dates).value)))
    /\ log' = Append(log, [op  |-> "set_current",
                           day |-> value_as_date(current_date(dates))])
    /\ idx' = 1
    /\ pc' = "boot_loop"
    /\ dirty' = TRUE
    /\ UNCHANGED << query_vars, path_exists, remote_vars, dates, current, db_current,
                    strategy, run, result, reader_vars >>

\* one turn of `for mut date in dates`
BootstrapPutDay ==
    /\ pc = "boot_loop"
    /\ idx <= Len(dates)
    /\ store' = put(store, date_as_key(dates[idx].value),
                    serialize_date(push_eur(dates[idx])))
    /\ log' = Append(log, [op |-> "put", day |-> value_as_date(dates[idx])])
    /\ idx' = idx + 1
    /\ dirty' = TRUE
    /\ UNCHANGED << query_vars, path_exists, remote_vars, pc, dates, current, db_current,
                    strategy, run, result, reader_vars >>

\* flush_async and Ok(db)
BootstrapFlush ==
    /\ pc = "boot_loop"
    /\ idx > Len(dates)
    /\ pc' = "idle"
    /\ result' = "ok"
    /\ dates' = << >>
    /\ idx' = 0
    /\ dirty' = FALSE
    /\ UNCHANGED << query_vars, path_exists, store, remote_vars, current,
                    db_current, strategy, run, log, reader_vars >>

\* a put or the flush fails: `?` returns the DatabaseError from bootstrap_new
BootstrapFail ==
    /\ pc \in {"boot_put_current", "boot_loop"}
    /\ pc' = "failed"
    /\ result' = "err"
    /\ dates' = << >>
    /\ idx' = 0
    /\ UNCHANGED << query_vars, path_exists, store, dirty, remote_vars, current,
                    db_current, strategy, run, log, reader_vars >>

(***************************************************************************)
(* update: one reconciliation tick.                                        *)
(***************************************************************************)
\* update up to the match on current.cmp(&db_current)
UpdateStart ==
    /\ pc = "idle"
    /\ run' = "update"
    /\ log' = << >>
    /\ dates' = << >>
    /\ idx' = 0
    /\ strategy' = "none"
    /\ LET daily == fetch_daily(published)
           local == get_current_rates(store)
       IN  \/ \* fetch_daily fails
              /\ result' = "err"
              /\ pc' = "idle"
              /\ current' = NoDate
              /\ db_current' = NoDate
           \/ \* fetch_daily answers, get_current_rates fails
              /\ daily.tag = "ok"
              /\ local.tag = "err"
              /\ result' = "err"
              /\ pc' = "idle"
              /\ current' = value_as_date(daily.val)
              /\ db_current' = NoDate
           \/ /\ daily.tag = "ok"
              /\ local.tag = "ok"
              /\ current' = value_as_date(daily.val)
              /\ db_current' = value_as_date(local.val)
              /\ LET ord == cmp(value_as_date(daily.val), value_as_date(local.val))
                 IN  \/ /\ ord = "Equal"
                        /\ result' = "ok"
                        /\ pc' = "idle"
                     \/ /\ ord = "Greater"
                        /\ result' = "none"
                        /\ pc' = "upd_fetch"
                     \/ /\ ord = "Less"
                        /\ result' = "err"
                        /\ pc' = "idle"
    /\ UNCHANGED << query_vars, path_exists, store, dirty, remote_vars, reader_vars >>

\* the fetch chosen by `match current - db_current`
UpdateFetch ==
    /\ pc = "upd_fetch"
    /\ LET s == fetch_strategy(current - db_current)
       IN  /\ strategy' = s
           /\ dates' = iter_mut_rev(
                  IF s = "hist" THEN fetch_hist(published, feed_order)
                  ELSE IF s = "last90" THEN fetch_last90(published, feed_order)
                  ELSE << fetch_daily(published).val >>)
    /\ idx' = 1
    /\ pc' = "upd_loop"
    /\ UNCHANGED << query_vars, path_exists, store, dirty, remote_vars, current, db_current, run,
                    result, log, reader_vars >>

\* a turn of `for date in dates.iter_mut().rev()` whose date is not newer
UpdateSkip ==
    /\ pc = "upd_loop"
    /\ idx <= Len(dates)
    /\ ~is_newer(dates[idx], db_current)
    /\ idx' = idx + 1
    /\ UNCHANGED << query_vars, path_exists, store, dirty, remote_vars, pc, dates, current,
                    db_current, strategy, run, result, log, reader_vars >>

\* a turn whose date is newer: push EUR and db.put(&day, &date)
UpdatePutDay ==
    /\ pc = "upd_loop"
    /\ idx <= Len(dates)
    /\ is_newer(dates[idx], db_current)
    /\ LET w == update_puts(dates[idx])[1]
       IN  /\ store' = put(store, w.key, w.blob)
           /\ log' = Append(log, [op |-> w.op, day |-> value_as_date(dates[idx])])
    /\ pc' = "upd_put_current"
    /\ dirty' = TRUE
    /\ UNCHANGED << query_vars, path_exists, remote_vars, dates, idx, current, db_current,
                    strategy, run, result, reader_vars >>

\* db.put(b"current", &date_as_key(&date.value)?)
UpdatePutCurrent ==
    /\ pc = "upd_put_current"
    /\ LET w == update_puts(dates[idx])[2]
       IN  /\ store' = put(store, w.key, w.blob)
           /\ log' = Append(log, [op |-> w.op, day |-> value_as_date(dates[idx])])
    /\ idx' = idx + 1
    /\ pc' = "upd_loop"
    /\ dirty' = TRUE
    /\ UNCHANGED << query_vars, path_exists, remote_vars, dates, current, db_current,
                    strategy, run, result, reader_vars >>

\* the loop is over: Ok(())
UpdateDone ==
    /\ pc = "upd_loop"
    /\ idx > Len(dates)
    /\ result' = "ok"
    /\ pc' = "idle"
    /\ dates' = << >>
    /\ idx' = 0
    /\ UNCHANGED << query_vars, path_exists, store, dirty, remote_vars, current,
                    db_current, strategy, run, log, reader_vars >>

\* the error of a failed step dropped: the tick ends with Ok(())
UpdateFail_swallowed ==
    /\ pc \in UpdatePcs
    /\ result' = "ok"
    /\ pc' = "idle"
    /\ dates' = << >>
    /\ idx' = 0
    /\ UNCHANGED << query_vars, path_exists, store, dirty, remote_vars, current,
                    db_current, strategy, run, log, reader_vars >>

\* a fetch or a put fails: `?` returns the error from update
UpdateFail ==
    /\ pc \in UpdatePcs
    /\ result' = "err"
    /\ pc' = "idle"
    /\ dates' = << >>
    /\ idx' = 0
    /\ UNCHANGED << query_vars, path_exists, store, dirty, remote_vars, current,
                    db_current, strategy, run, log, reader_vars >>

(***************************************************************************)
(* A reader inside Db::get_current_rates, concurrent with the writer.      *)
(***************************************************************************)
\* the Db handle exists once init has returned it
DbOpen == pc \in {"idle"} \cup UpdatePcs

\* self.get::<Vec<u8>>(b"current")
ReadCurrentKey ==
    /\ DbOpen
    /\ r_pc = "idle"
    /\ LET cur == get(store, CurrentKey, "Bytes")
       IN  IF cur.tag = "some"
           THEN /\ r_ptr' = cur.val
                /\ r_pc' = "target"
                /\ r_result' = "none"
           ELSE /\ r_ptr' = << >>
                /\ r_pc' = "idle"
                /\ r_result' = "no_current_key"
    /\ UNCHANGED << query_vars, path_exists, store, dirty, remote_vars, writer_vars >>

\* self.get::<Date>(&current)
ReadCurrentRates ==
    /\ r_pc = "target"
    /\ LET d == get(store, r_ptr, "Date")
       IN  r_result' = IF d.tag = "some" THEN "ok" ELSE "no_current_rates"
    /\ r_pc' = "idle"
    /\ r_ptr' = << >>
    /\ UNCHANGED << query_vars, path_exists, store, dirty, remote_vars, writer_vars >>

(***************************************************************************)
(* The process stops (a crash, or main returning the error of init) and    *)
(* is started again on the same path.  The store that is found again is    *)
(* the one left behind: the outcome in which sled had written its buffer.  *)
(***************************************************************************)
Crash ==
    /\ pc # "start"
    /\ pc' = "start"
    /\ dates' = << >>
    /\ idx' = 0
    /\ current' = NoDate
    /\ db_current' = NoDate
    /\ strategy' = "none"
    /\ r_pc' = "idle"
    /\ r_ptr' = << >>
    /\ r_result' = "none"
    /\ dirty' = FALSE
    /\ UNCHANGED << query_vars, path_exists, store, remote_vars, run, result, log >>

Next ==
    \/ Publish
    \/ Retract
    \/ init
    \/ BootstrapFetch
    \/ BootstrapPutCurrent
    \/ BootstrapPutDay
    \/ BootstrapFlush
    \/ BootstrapFail
    \/ UpdateStart
    \/ UpdateFetch
    \/ UpdateSkip
    \/ UpdatePutDay
    \/ UpdatePutCurrent
    \/ UpdateDone
    \/ UpdateFail
    \/ ReadCurrentKey
    \/ ReadCurrentRates
    \/ Crash

Spec == Init /\ [][Next]_vars


(***************************************************************************)
(* The writer when every fetch and every store operation succeeds and the  *)
(* process keeps running: init, bootstrap_new and one tick after the       *)
(* other, with the remote source publishing up to its last date.           *)
(***************************************************************************)
\* bootstrap_new with a fetch_hist that answers with a date or more
BootstrapFetchOk == BootstrapFetch /\ pc' # "failed"

\* update with a fetch_daily and a get_current_rates that answer
UpdateStartOk == UpdateStart /\ current' # NoDate /\ db_current' # NoDate

\* the steps of the writer
WriterLive ==
    \/ init
    \/ BootstrapFetchOk
    \/ BootstrapPutCurrent
    \/ BootstrapPutDay
    \/ BootstrapFlush
    \/ UpdateStartOk
    \/ UpdateFetch
    \/ UpdateSkip
    \/ UpdatePutDay
    \/ UpdatePutCurrent
    \/ UpdateDone

NextLive ==
    \/ Publish
    \/ WriterLive

\* the writer has a step to take that changes the state: it is inside a
\* procedure, or bootstrap_new has a history to fetch, or a tick finds the
\* local current date behind the remote latest
WriterReady ==
    \/ pc \in {"start", "boot_put_current", "boot_loop", "upd_fetch", "upd_loop",
               "upd_put_current"}
    \/ pc = "bootstrap_new" /\ DOMAIN published # {}
    \/ /\ pc = "idle"
       /\ fetch_daily(published).tag = "ok"
       /\ get_current_rates(store).tag = "ok"
       /\ value_as_date(get_current_rates(store).val)
              < value_as_date(fetch_daily(published).val)

\* the writer is scheduled again and again: a started procedure goes on, and
\* a tick follows the procedure that returned.  WriterReady implies
\* ENABLED << WriterLive >>_vars, so this asks no more than WF_vars(WriterLive)
Scheduled == []<>(~WriterReady) \/ []<><< WriterLive >>_vars

SpecLive == Init /\ [][NextLive]_vars /\ Scheduled

(***************************************************************************)
(* The store put to and queried directly, as the tests of db.rs do: calls  *)
(* of Db::put, date_as_key, Db::get_day_rates and Db::get_range_rates on   *)
(* an open Db.                                                             *)
(***************************************************************************)
\* the dates of the snapshots put
StoreDays == { FirstDay, FirstDay + 1, FirstDay + 3 }
\* the dates asked for: 1969-12-31, 1970-01-01 and dates around the stored ones
QueryDays == { -1, 0, FirstDay - 1, FirstDay, FirstDay + 1, FirstDay + 3 }

\* fn_in and fn_out record one call on the store as it is; the record is
\* dropped by the next put.  What these calls leave alone:
fn_fixed == << path_exists, remote_vars, pc, dates, idx, current, db_current,
               strategy, run, result, reader_vars >>

InitFn ==
    /\ path_exists = TRUE
    /\ store = << >>
    /\ published = << >>
    /\ feed_order = "newest_first"
    /\ payload = << USD >>
    /\ retracted = FALSE
    /\ dirty = FALSE
    /\ fn_in = [op |-> "none"]
    /\ fn_out = [tag |-> "none"]
    /\ pc = "idle"
    /\ dates = << >>
    /\ idx = 0
    /\ current = NoDate
    /\ db_current = NoDate
    /\ strategy = "none"
    /\ run = "none"
    /\ result = "none"
    /\ log = << >>
    /\ r_pc = "idle"
    /\ r_ptr = << >>
    /\ r_result = "none"

\* db.put(&date_as_key(&date.value)?, &date)
FnPut ==
    /\ Len(log) < MaxPuts
    /\ \E d \in StoreDays, cur \in Payloads :
          LET date == [value |-> NaiveDate_to_string(d), currencies |-> cur]
          IN  /\ store' = put(store, date_as_key(date.value), serialize_date(date))
              /\ log' = Append(log, [op |-> "put", day |-> d, date |-> date])
    /\ dirty' = TRUE
    /\ fn_in' = [op |-> "none"]
    /\ fn_out' = [tag |-> "none"]
    /\ UNCHANGED fn_fixed

\* db.put(b"current", &date_as_key(&date.value)?)
FnPutCurrent ==
    /\ Len(log) < MaxPuts
    /\ \E d \in StoreDays :
          /\ store' = put(store, CurrentKey,
                          serialize_bytes(date_as_key(NaiveDate_to_string(d))))
          /\ log' = Append(log, [op |-> "set_current", day |-> d])
    /\ dirty' = TRUE
    /\ fn_in' = [op |-> "none"]
    /\ fn_out' = [tag |-> "none"]
    /\ UNCHANGED fn_fixed

\* date_as_key on two date strings
FnDateAsKey ==
    /\ fn_in.op = "none"
    /\ \E d1, d2 \in QueryDays :
          /\ fn_in' = [op |-> "date_as_key", d1 |-> NaiveDate_to_string(d1),
                       d2 |-> NaiveDate_to_string(d2)]
          /\ fn_out' = [tag |-> "ok",
                        val |-> << date_as_key(NaiveDate_to_string(d1)),
                                   date_as_key(NaiveDate_to_string(d2)) >>]
    /\ UNCHANGED << store, dirty, log, fn_fixed >>

\* db.get_day_rates(day)
FnGetDayRates ==
    /\ fn_in.op = "none"
    /\ \E d \in QueryDays :
          /\ fn_in' = [op |-> "get_day_rates", day |-> NaiveDate_to_string(d)]
          /\ fn_out' = get_day_rates(store, NaiveDate_to_string(d))
    /\ UNCHANGED << store, dirty, log, fn_fixed >>

\* db.get_range_rates(start_at, end_at)
FnGetRangeRates ==
    /\ fn_in.op = "none"
    /\ \E a, b \in QueryDays :
          /\ fn_in' = [op |-> "get_range_rates", start_at |-> a, end_at |-> b]
          /\ fn_out' = get_range_rates(store, a, b)
    /\ UNCHANGED << store, dirty, log, fn_fixed >>

NextFn ==
    \/ FnPut
    \/ FnPutCurrent
    \/ FnDateAsKey
    \/ FnGetDayRates
    \/ FnGetRangeRates

SpecFn == InitFn /\ [][NextFn]_vars

(***************************************************************************)
(* The API called directly, as the tests of api.rs do: one call of         *)
(* try_reply on a sequence of Dates, or of history_handler on a store.     *)
(***************************************************************************)
\* the currency lists of the Dates handed to try_reply
ReplyCurrencies == { << USD, EUR >>, << EUR, USD, EUR >>, << EUR >> }
ReplyDays == { FirstDay, FirstDay + 1 }
ReplyDates ==
    { [value |-> NaiveDate_to_string(d), currencies |-> c] :
          d \in ReplyDays, c \in ReplyCurrencies }

\* the sequences of at most n elements of S
SeqUpTo(S, n) == UNION { [1..k -> S] : k \in 0..n }

\* the parameters of a request
SymbolChoices == { None, Some(<< "USD" >>), Some(<< "USD", "EUR" >>), Some(<< "GBP" >>) }
BaseChoices == { None, Some("USD"), Some("GBP") }
\* start_at and end_at: absent, unparsable, or a date around 1999-01-04
BoundaryChoices ==
    { None, Some(<< 1999, 2, 30 >>) }
    \cup { Some(NaiveDate_to_string(d)) :
               d \in { FirstDay - 2, FirstDay - 1, FirstDay, FirstDay + 1 } }

\* the stores history_handler is called on: an empty one, and one with the
\* snapshots of 1999-01-04 and 1999-01-05 and the pointer
ApiStores ==
    LET d1 == [value |-> NaiveDate_to_string(FirstDay), currencies |-> << USD, EUR >>]
        d2 == [value |-> NaiveDate_to_string(FirstDay + 1), currencies |-> << EUR >>]
        s1 == put(<< >>, date_as_key(d1.value), serialize_date(d1))
        s2 == put(s1, date_as_key(d2.value), serialize_date(d2))
    IN  { << >>, put(s2, CurrentKey, serialize_bytes(date_as_key(d2.value))) }

InitApi ==
    /\ path_exists = TRUE
    /\ store \in ApiStores
    /\ published = << >>
    /\ feed_order = "newest_first"
    /\ payload = << USD >>
    /\ retracted = FALSE
    /\ dirty = FALSE
    /\ fn_in = [op |-> "none"]
    /\ fn_out = [tag |-> "none"]
    /\ pc = "idle"
    /\ dates = << >>
    /\ idx = 0
    /\ current = NoDate
    /\ db_current = NoDate
    /\ strategy = "none"
    /\ run = "none"
    /\ result = "none"
    /\ log = << >>
    /\ r_pc = "idle"
    /\ r_ptr = << >>
    /\ r_result = "none"

\* try_reply(dates, params)
ApiTryReply ==
    /\ fn_in.op = "none"
    /\ \E ds \in SeqUpTo(ReplyDates, MaxReplyDates),
          sy \in SymbolChoices, ba \in BaseChoices :
          LET params == [start_at |-> None, end_at |-> None,
                         base |-> ba, symbols |-> sy]
          IN  /\ fn_in' = [op |-> "try_reply", dates |-> ds, params |-> params]
              /\ fn_out' = try_reply(ds, params)
    /\ UNCHANGED << store, dirty, log, fn_fixed >>

\* history_handler(params, db)
ApiHistoryHandler ==
    /\ fn_in.op = "none"
    /\ \E st \in BoundaryChoices, en \in BoundaryChoices,
          sy \in SymbolChoices, ba \in BaseChoices :
          LET params == [start_at |-> st, end_at |-> en,
                         base |-> ba, symbols |-> sy]
          IN  /\ fn_in' = [op |-> "history_handler", params |-> params]
              /\ fn_out' = history_handler(store, params)
    /\ UNCHANGED << store, dirty, log, fn_fixed >>

NextApi ==
    \/ ApiTryReply
    \/ ApiHistoryHandler

SpecApi == InitApi /\ [][NextApi]_vars

(***************************************************************************)
(* The index page: sort_currencies of src/src/handlers.rs, called on the   *)
(* currencies of a Date.  sort_by is the stable sort of slices, which for  *)
(* a list this short inserts the elements one after the other; the names   *)
(* of a list are distinct, as the currencies of one <Cube> of a feed are.  *)
(***************************************************************************)
GBP == [name |-> "GBP", rate |-> 3]
JPY == [name |-> "JPY", rate |-> 4]
CHF == [name |-> "CHF", rate |-> 5]

\* length of the longest list handed to sort_currencies
MaxSortLen == 4

\* the closure of sort_by: match (curr1.name.as_ref(), curr2.name.as_ref())
compare(curr1, curr2) ==
    IF curr1.name = "EUR" THEN "Less"
    ELSE IF curr2.name = "EUR" THEN "Greater"
    ELSE IF \/ curr1.name = "USD" /\ curr2.name = "GBP"
            \/ curr1.name = "GBP" /\ curr2.name = "USD" THEN "Equal"
    ELSE IF curr1.name = "USD" THEN "Less"
    ELSE IF curr2.name = "USD" THEN "Greater"
    ELSE IF curr1.name = "GBP" THEN "Less"
    ELSE IF curr2.name = "GBP" THEN "Greater"
    ELSE "Equal"

RECURSIVE insert_tail(_, _)
\* x moved left past the elements it is Less than, and no further
insert_tail(sorted, x) ==
    IF sorted = << >> \/ compare(x, sorted[Len(sorted)]) # "Less"
    THEN Append(sorted, x)
    ELSE Append(insert_tail(SubSeq(sorted, 1, Len(sorted) - 1), x),
                sorted[Len(sorted)])

RECURSIVE sort_by(_)
\* slice::sort_by with the closure `compare`
sort_by(v) ==
    IF v = << >> THEN << >>
    ELSE insert_tail(sort_by(SubSeq(v, 1, Len(v) - 1)), v[Len(v)])

\* sort_currencies(&mut currencies): the list after the call
sort_currencies(currencies) == sort_by(currencies)

\* the lists handed to sort_currencies: no name twice
SortInputs ==
    { v \in SeqUpTo({EUR, USD, GBP, JPY, CHF}, MaxSortLen) :
          \A i, j \in 1..Len(v) : i # j => v[i].name # v[j].name }

InitSort == InitApi /\ store = << >>

\* sort_currencies(&mut date.currencies)
SortCurrencies ==
    /\ fn_in.op = "none"
    /\ \E v \in SortInputs :
          /\ fn_in' = [op |-> "sort_currencies", currencies |-> v]
          /\ fn_out' = [tag |-> "ok", val |-> sort_currencies(v)]
    /\ UNCHANGED << store, dirty, log, fn_fixed >>

NextSort == SortCurrencies

SpecSort == InitSort /\ [][NextSort]_vars

(***************************************************************************)
(* Vocabulary of the properties.                                           *)
(***************************************************************************)
HasPointer == CurrentKey \in DOMAIN store

\* the pointer record names a key under which a snapshot is stored
PointerTargetExists == HasPointer => store[CurrentKey].body \in DOMAIN store

\* a reader that has read the pointer holds a key of a stored snapshot
ReaderTargetExists == r_pc = "target" => r_ptr \in DOMAIN store

\* the date of the snapshot get_current_rates returns
PointerDay == value_as_date(get_current_rates(store).val)

\* the store key of day number n
DayKey(n) == date_as_key(NaiveDate_to_string(n))

\* the days whose snapshot the running (or last) procedure has put
PutDays == { log[k].day : k \in { j \in 1..Len(log) : log[j].op = "put" } }

\* the writes of the log are snapshot puts in ascending date order
PutsAscending ==
    \A j, k \in 1..Len(log) :
        (j < k /\ log[j].op = "put" /\ log[k].op = "put") => log[j].day < log[k].day

InTick == pc \in UpdatePcs

\* a tick that found the remote newer than the local date has returned Ok
TickAdvancedOk ==
    /\ run = "update" /\ result = "ok" /\ pc = "idle"
    /\ current # NoDate /\ db_current # NoDate
    /\ current > db_current

BootstrapOk == run = "bootstrap" /\ result = "ok"

(***************************************************************************)
(* C1..C10                                                                 *)
(***************************************************************************)

\* C1 (as claimed): in every reachable state, bootstrap_new and update
\* included, a present `current` record names a key under which a snapshot
\* is stored.  bootstrap_new puts `current` before the first snapshot.
CE_C1_PointerAlwaysHasTarget == PointerTargetExists

\* C2: on a store whose pointer has its target, no step of a tick and no
\* step of a concurrent get_current_rates leaves the pointer or the reader
\* with a key that has no snapshot, and every get_current_rates that
\* finishes meanwhile returns the snapshot (never "target missing").
T_C2_ReaderNeverMissesTarget ==
    [][ ( /\ PointerTargetExists /\ ReaderTargetExists
          /\ DbOpen /\ DbOpen' )
        => ( /\ PointerTargetExists' /\ ReaderTargetExists'
             /\ (r_pc = "target" /\ r_pc' = "idle") => r_result' = "ok" ) ]_vars

\* C2 witness: a reader got the snapshot between the snapshot put and the
\* pointer put of a tick, having read the pointer during that tick
W_C2_ReadInsideTick ==
    /\ pc = "upd_put_current"
    /\ r_result = "ok"
    /\ Len(log) >= 3

\* C3 (as claimed): after a successful bootstrap over a history supplied
\* oldest first, get_current_rates returns the snapshot of the greatest
\* fetched date.
CE_C3_BootstrapPointsAtGreatest ==
    (BootstrapOk /\ feed_order = "oldest_first")
    => /\ get_current_rates(store).tag = "ok"
       /\ PointerDay = SetMax(PutDays)

\* C3 (amended): after a successful bootstrap get_current_rates succeeds
\* and returns the snapshot of the first date of the fetched sequence, with
\* EUR appended; that is the greatest fetched date when the history is
\* supplied newest first.
T_C3_BootstrapPointsAtFirst ==
    BootstrapOk
    => /\ get_current_rates(store).tag = "ok"
       /\ Len(log) >= 2
       /\ PointerDay = log[2].day
       /\ get_current_rates(store).val =
             [value |-> NaiveDate_to_string(log[2].day),
              currencies |-> Append(payload, EUR)]
       /\ feed_order = "newest_first" => PointerDay = SetMax(PutDays)

\* C3 witness: a bootstrap over two or more dates, newest first, returned Ok
W_C3_BootstrapDone ==
    /\ BootstrapOk /\ pc = "idle"
    /\ feed_order = "newest_first"
    /\ Cardinality(PutDays) >= 2

\* C4 (as claimed): after a successful tick that found the remote newer,
\* with the fetched sequence supplied oldest first, get_current_rates
\* succeeds with the greatest date the tick committed.
CE_C4_TickPointsAtGreatest ==
    (TickAdvancedOk /\ feed_order = "oldest_first")
    => /\ get_current_rates(store).tag = "ok"
       /\ PutDays # {}
       /\ PointerDay = SetMax(PutDays)

\* C4 (amended): the same for a fetched sequence supplied newest first;
\* the date is then at least the remote latest date read at the start.
T_C4_TickPointsAtGreatest ==
    (TickAdvancedOk /\ feed_order = "newest_first")
    => /\ get_current_rates(store).tag = "ok"
       /\ PutDays # {}
       /\ PointerDay = SetMax(PutDays)
       /\ PointerDay >= current

\* C4 witness: such a tick committed two or more dates
W_C4_TickCommittedSeveral ==
    /\ TickAdvancedOk
    /\ feed_order = "newest_first"
    /\ Cardinality(PutDays) >= 2

\* the fetched dates after the local current date and up to the pointer
\* have their snapshot in the store
NothingSkippedBelowPointer ==
    \A k \in 1..Len(dates) :
        LET d == value_as_date(dates[k])
        IN  (db_current < d /\ d <= PointerDay)
            => date_as_key(dates[k].value) \in DOMAIN store

\* C5 (as claimed): at every point inside a tick, every fetched date d with
\* c < d <= p (c the local date read at the start, p the pointer's date)
\* has been put.
CE_C5_PointerNotAhead ==
    (pc \in {"upd_loop", "upd_put_current"}) => NothingSkippedBelowPointer

\* C5 (amended): that holds when the fetched sequence is supplied newest
\* first, so that the reversed loop visits the dates oldest first.
T_C5_PointerNotAhead ==
    (pc \in {"upd_loop", "upd_put_current"} /\ feed_order = "newest_first")
    => NothingSkippedBelowPointer

\* C5 witness: inside a tick over several new dates, the pointer already
\* advanced once and a newer fetched date still to come
W_C5_MidTick ==
    /\ pc = "upd_loop"
    /\ feed_order = "newest_first"
    /\ Len(log) = 2
    /\ idx <= Len(dates)
    /\ is_newer(dates[idx], db_current)

\* every snapshot put of the log is followed by the pointer put of its day
PointerFollowsPut ==
    \A k \in 1..Len(log) :
        /\ (log[k].op = "put" /\ k < Len(log))
           => (log[k + 1].op = "set_current" /\ log[k + 1].day = log[k].day)
        /\ log[k].op = "set_current"
           => (k > 1 /\ log[k - 1].op = "put")

\* C6 (as claimed): given a fetched sequence supplied oldest first, the
\* snapshots a tick commits are put in ascending date order.
CE_C6_AscendingCommits ==
    (run = "update" /\ feed_order = "oldest_first") => PutsAscending

\* C6 (amended): given a fetched sequence supplied newest first, the
\* snapshots a tick commits are put, each followed by the pointer set to
\* it, in ascending date order.
T_C6_AscendingCommits ==
    (run = "update" /\ feed_order = "newest_first")
    => (PutsAscending /\ PointerFollowsPut)

\* C6 witness: a tick has put two snapshots
W_C6_TwoCommits ==
    /\ run = "update"
    /\ feed_order = "newest_first"
    /\ Cardinality(PutDays) >= 2

\* C7: no step of a tick writes a snapshot or the pointer for a date that
\* is not after the local current date read at the start; the records of
\* the fetched dates up to that date stay as they are.
T_C7_OldDatesUntouched ==
    [][ InTick
        => /\ \A k \in 1..Len(dates) :
                 value_as_date(dates[k]) <= db_current
                 => LET key == date_as_key(dates[k].value)
                    IN  /\ (key \in DOMAIN store') = (key \in DOMAIN store)
                        /\ key \in DOMAIN store => store'[key] = store[key]
           /\ \A k \in 1..Len(log') :
                 k > Len(log) => log'[k].day > db_current
           /\ (HasPointer /\ store'[CurrentKey] # store[CurrentKey])
              => store'[CurrentKey].body \in
                    { DayKey(d) : d \in { e \in DOMAIN published : e > db_current } }
      ]_vars

\* C7 witness: a tick went through a window that held a date it had to
\* leave alone and a date it committed
W_C7_SkippedAndCommitted ==
    /\ pc = "upd_loop"
    /\ idx > Len(dates)
    /\ log # << >>
    /\ \E k \in 1..Len(dates) : value_as_date(dates[k]) <= db_current

\* the strategy the claim gives for a gap of g whole days
ClaimedStrategy(g) ==
    IF g > 90 THEN "hist" ELSE IF g >= 2 THEN "last90" ELSE "daily"

\* C8 (as claimed): the endpoint a tick fetches is full history for a gap
\* over 90 days, the last-90-days window for every gap from 2 to 90 days,
\* the single latest snapshot for a gap of one day.  update fetches the
\* single latest snapshot at a gap of exactly 90 days.
CE_C8_StrategyByGap ==
    strategy # "none" => strategy = ClaimedStrategy(current - db_current)

\* C9 (as claimed): after a successful tick that found the remote newer,
\* the store holds a snapshot for every published date after the local
\* date and up to the remote latest date.  At a gap of 90 days only the
\* latest date is fetched (C8).
CE_C9_GapCovered ==
    TickAdvancedOk
    => \A d \in DOMAIN published :
          (db_current < d /\ d <= current) => DayKey(d) \in DOMAIN store

\* C10: a tick that finds the remote latest date equal to the local
\* current date returns Ok at once and leaves every record of the store,
\* the pointer included, as it was.
T_C10_EqualIsNoOp ==
    [][ ( /\ UpdateStart
          /\ current' # NoDate /\ db_current' # NoDate
          /\ current' = db_current' )
        => ( /\ result' = "ok" /\ pc' = "idle"
             /\ store' = store ) ]_vars

\* C10 witness: such a tick has returned
W_C10_NoOpTick ==
    /\ run = "update" /\ result = "ok" /\ pc = "idle"
    /\ current # NoDate /\ current = db_current
    /\ log = << >>

(***************************************************************************)
(* C11..C20                                                                *)
(***************************************************************************)

\* C11: a tick that finds the remote latest date older than the local
\* current date returns the error of the Ordering::Less arm at once and
\* leaves every record of the store, the pointer included, as it was.
T_C11_RegressedIsError ==
    [][ ( /\ UpdateStart
          /\ current' # NoDate /\ db_current' # NoDate
          /\ current' < db_current' )
        => ( /\ result' = "err" /\ pc' = "idle"
             /\ store' = store ) ]_vars

\* C11 witness: the source withdrew its latest date and such a tick returned
W_C11_RegressedTick ==
    /\ retracted
    /\ run = "update" /\ result = "err" /\ pc = "idle"
    /\ current # NoDate /\ db_current # NoDate
    /\ current < db_current

\* the snapshots held by the store
Snapshots == { store[k].body : k \in { j \in DOMAIN store : store[j].kind = "Date" } }

\* C12: every snapshot put into the store by bootstrap_new or by update
\* holds the currency EUR with rate 1.0, whether the payload fetched for
\* its date had an EUR entry or not.
T_C12_SnapshotHasEUR ==
    \A snap \in Snapshots :
        \E i \in 1..Len(snap.currencies) : snap.currencies[i] = EUR

\* C12 witness: the payloads of the source have no EUR entry, and the store
\* holds a snapshot put by bootstrap_new and one put by a tick
W_C12_CommittedWithoutEURInPayload ==
    /\ \A i \in 1..Len(payload) : payload[i].name # "EUR"
    /\ run = "update" /\ result = "ok" /\ pc = "idle"
    /\ PutDays # {}
    /\ \E snap \in Snapshots : value_as_date(snap) \notin PutDays
    /\ \A d \in PutDays : DayKey(d) \in DOMAIN store

\* C13: when fetch_hist fails or answers with no date, bootstrap_new
\* returns an error with no store opened at the path, and init on a path
\* with no store runs bootstrap_new.
T_C13_FailedFetchLeavesNoStore ==
    [][ /\ (pc = "bootstrap_new" /\ pc' = "failed")
           => (result' = "err" /\ ~path_exists' /\ store' = store)
        /\ (pc = "start" /\ pc' # "start" /\ ~path_exists)
           => (pc' = "bootstrap_new" /\ run' = "bootstrap")
      ]_vars

\* C13 witness: bootstrap_new has returned its error on an empty history
\* and the path holds no store
W_C13_FetchFailed ==
    /\ pc = "failed" /\ run = "bootstrap" /\ result = "err"
    /\ fetch_hist(published, feed_order) = << >>
    /\ ~path_exists

\* C14 (as claimed): init runs bootstrap_new whenever the store holds no
\* `current` record, whether a store exists at the path or not.  init looks
\* at the path only.
CE_C14_InitBootstrapsWithoutPointer ==
    [][ (pc = "start" /\ pc' # "start" /\ ~HasPointer)
        => (pc' = "bootstrap_new" /\ run' = "bootstrap") ]_vars

\* C15 (as claimed): bootstrap_new and every tick that wrote a record have
\* flushed after their last write when they return Ok.  update has no flush.
CE_C15_NoSuccessWithUnflushedWrites ==
    ( /\ pc = "idle" /\ result = "ok"
      /\ run \in {"bootstrap", "update"}
      /\ log # << >> )
    => ~dirty

\* C16: a step of a tick that fails (fetch_daily, get_current_rates, the
\* fetch of the window, the parse of a date, a put) ends the tick with an
\* error and writes nothing; the tick that has returned an error writes
\* nothing more and its outcome stays an error.
T_C16_FailureAbortsTick ==
    [][ /\ (UpdateStart /\ (current' = NoDate \/ db_current' = NoDate))
           => (result' = "err" /\ pc' = "idle" /\ store' = store)
        /\ (InTick /\ pc' = "idle" /\ ~(pc = "upd_loop" /\ idx > Len(dates)))
           => (result' = "err" /\ store' = store /\ log' = log)
        /\ (run = "update" /\ result = "err" /\ ~UpdateStart)
           => (store' = store /\ (run' = "update" => result' = "err"))
      ]_vars

\* C16 witness: a tick has returned an error after it had put a record
W_C16_FailedAfterPut ==
    /\ run = "update" /\ result = "err" /\ pc = "idle"
    /\ log # << >>

\* C17: with a `current` record in the store, get_current_rates returns the
\* snapshot stored under the key the record holds, which is the snapshot of
\* the date of that key, and returns an error when no snapshot is stored
\* under that key.
T_C17_CurrentRatesIsPointedSnapshot ==
    HasPointer =>
        LET ptr == store[CurrentKey].body
            r   == get_current_rates(store)
        IN  IF ptr \in DOMAIN store
            THEN /\ r.tag = "ok"
                 /\ r.val = store[ptr].body
                 /\ date_as_key(r.val.value) = ptr
            ELSE /\ r.tag = "err"
                 /\ r.why = "no_current_rates"

\* C17 witness: a tick called get_current_rates on a store whose pointer has
\* no target and got its error, and a reader got the same error
W_C17_DanglingPointerRead ==
    /\ HasPointer /\ ~PointerTargetExists
    /\ run = "update" /\ result = "err" /\ pc = "idle"
    /\ current # NoDate /\ db_current = NoDate
    /\ r_result = "no_current_rates"

\* the Date last put for a day: Some of it, or None when none was put
LastPut(day) ==
    LET at == { k \in 1..Len(log) : log[k].op = "put" /\ log[k].day = day }
    IN  IF at = {} THEN [tag |-> "none"]
        ELSE [tag |-> "some", val |-> log[SetMax(at)].date]

\* C18: get_day_rates on a valid date returns the snapshot last put under
\* that date, and None, not an error, when none was put.
T_C18_DayRatesIsLastPut ==
    fn_in.op = "get_day_rates"
    => fn_out = LastPut(NaiveDate_from_str(fn_in.day))

\* C18 witness: get_day_rates returned the second of two different
\* snapshots put under its date, on a store without the day before it
W_C18_OverwrittenDayRead ==
    /\ fn_in.op = "get_day_rates"
    /\ fn_out.tag = "some"
    /\ \E j, k \in 1..Len(log) :
          /\ j < k
          /\ log[j].op = "put" /\ log[k].op = "put"
          /\ log[j].day = log[k].day
          /\ log[j].date # log[k].date
          /\ fn_out.val = log[k].date
    /\ get_day_rates(store, NaiveDate_to_string(FirstDay - 1)).tag = "none"

\* the stored snapshots of the days start..end, ascending by date
SnapshotsBetween(start, end) ==
    LET days == AscSeq({ d \in { value_as_date(snap) : snap \in Snapshots } :
                           start <= d /\ d <= end })
    IN  [i \in 1..Len(days) |-> store[DayKey(days[i])].body]

\* C19 (as claimed): for all dates start and end, get_range_rates returns
\* the stored snapshots of start..end, each once, ascending by date, and the
\* empty sequence when there is none.  A start before 1970-01-01 has a key
\* above the keys of all later dates (C20).
CE_C19_RangeIsWindow ==
    fn_in.op = "get_range_rates"
    => fn_out = [tag |-> "ok",
                 val |-> SnapshotsBetween(fn_in.start_at, fn_in.end_at)]

\* C20 (as claimed): for all valid dates d1 < d2, dates before 1970-01-01
\* included, the key of d1 is below the key of d2 in unsigned
\* byte-lexicographic order.  The key is the big-endian form of a signed
\* timestamp.
CE_C20_KeyOrderIsDateOrder ==
    ( /\ fn_in.op = "date_as_key"
      /\ NaiveDate_from_str(fn_in.d1) < NaiveDate_from_str(fn_in.d2) )
    => LexLess(fn_out.val[1], fn_out.val[2])

(***************************************************************************)
(* C21..C30                                                                *)
(***************************************************************************)

RECURSIVE SignedFromBe(_, _)
\* Horner's rule over the bytes of a key; neg reads the bytes complemented
SignedFromBe(k, neg) ==
    IF k = << >> THEN 0
    ELSE LET b == k[Len(k)]
         IN  SignedFromBe(SubSeq(k, 1, Len(k) - 1), neg) * 256
             + (IF neg THEN b - 255 ELSE b)

\* the 8 bytes of a key read as a big-endian signed integer
i64_from_be_bytes(k) ==
    IF k[1] >= 128 THEN SignedFromBe(k, TRUE) - 1 ELSE SignedFromBe(k, FALSE)

\* the calendar date of the timestamp a key holds
key_as_date(k) == NaiveDate_to_string(i64_from_be_bytes(k) \div SecondsPerDay)

\* C21: for every valid date d, reading date_as_key(d) back as a big-endian
\* signed midnight timestamp gives d, and two different dates have two
\* different keys.
T_C21_KeyRoundTrip ==
    fn_in.op = "date_as_key"
    => /\ Len(fn_out.val[1]) = KeyWidth
       /\ key_as_date(fn_out.val[1]) = fn_in.d1
       /\ key_as_date(fn_out.val[2]) = fn_in.d2
       /\ fn_in.d1 # fn_in.d2 => fn_out.val[1] # fn_out.val[2]

\* C21 witness: date_as_key was applied to a date before 1970-01-01 and to
\* a date after it
W_C21_KeysOfBothSigns ==
    /\ fn_in.op = "date_as_key"
    /\ NaiveDate_from_str(fn_in.d1) < 0
    /\ NaiveDate_from_str(fn_in.d2) > 0

\* C22 (as claimed): b"current" is the key of no valid date, and for every
\* pair of valid dates get_range_rates neither returns nor deserializes the
\* `current` record: it returns Ok with stored snapshots only.  A range that
\* starts from 1970-01-01 on and ends before it runs over b"current" (C20).
CE_C22_CurrentOutsideEveryRange ==
    /\ \A d \in QueryDays : DayKey(d) # CurrentKey
    /\ fn_in.op = "get_range_rates"
       => /\ fn_out.tag = "ok"
          /\ \A i \in 1..Len(fn_out.val) : fn_out.val[i] \in Snapshots

\* the key and the blob of an entry of the log of puts
LogKey(e) == IF e.op = "put" THEN DayKey(e.day) ELSE CurrentKey
LogBlob(e) ==
    IF e.op = "put" THEN serialize_date(e.date)
    ELSE serialize_bytes(DayKey(e.day))

\* what get, get_current_rates, get_day_rates and get_range_rates return
Observed(s) ==
    << s,
       get_current_rates(s),
       [d \in QueryDays |-> get_day_rates(s, NaiveDate_to_string(d))],
       [w \in { v \in QueryDays \X QueryDays : v[1] <= v[2] } |->
           get_range_rates(s, w[1], w[2])] >>

\* C23: a put stores its value under its key and leaves the other records
\* alone, replacing the value of a key that is present; a put of the value
\* that was put just before under the same key leaves the store, and what
\* every read returns, as the first put left them.
T_C23_PutIsIdempotentUpsert ==
    [][ Len(log') = Len(log) + 1
        => \A e \in {log'[Len(log')]} :
           \A key \in {LogKey(e)} :
           \A blob \in {LogBlob(e)} :
              /\ DOMAIN store' = (DOMAIN store) \cup {key}
              /\ store'[key] = blob
              /\ \A k \in DOMAIN store : k # key => store'[k] = store[k]
              /\ ( /\ Len(log) >= 1
                   /\ LogKey(log[Len(log)]) = key
                   /\ LogBlob(log[Len(log)]) = blob )
                 => Observed(store') = Observed(store)
      ]_vars

\* C23 witness: a snapshot was put twice in a row under a key that held
\* another snapshot before
W_C23_PutTwiceOverOther ==
    /\ Len(log) >= 3
    /\ log[1].op = "put" /\ log[2].op = "put" /\ log[3].op = "put"
    /\ log[1].day = log[2].day
    /\ log[1].date # log[2].date
    /\ log[2] = log[3]

\* a request to history_handler with two dates that parse, the second
\* earlier than the first
EndBeforeStart ==
    /\ fn_in.op = "history_handler"
    /\ fn_in.params.start_at.some /\ fn_in.params.end_at.some
    /\ NaiveDate_from_str(fn_in.params.start_at.val) # NoDate
    /\ NaiveDate_from_str(fn_in.params.end_at.val) # NoDate
    /\ NaiveDate_from_str(fn_in.params.end_at.val)
          < NaiveDate_from_str(fn_in.params.start_at.val)

\* C24 (as claimed): every request whose end_at is earlier than its
\* start_at is rejected with InvalidDateRange before the store is read.
\* A start_at before 1999-01-04 is rejected with PastDate first.
CE_C24_RejectedAsInvalidDateRange ==
    EndBeforeStart
    => /\ fn_out.called = << >>
       /\ fn_out.reply = Rejected("InvalidDateRange")

\* C24 (amended): history_handler calls get_range_rates only with
\* start_at <= end_at; a request whose end_at is earlier than its start_at
\* is rejected before the store is read, with PastDate when start_at is
\* before 1999-01-04 and with InvalidDateRange otherwise.
T_C24_RangeCallsAreOrdered ==
    fn_in.op = "history_handler"
    => /\ \A i \in 1..Len(fn_out.called) : fn_out.called[i][1] <= fn_out.called[i][2]
       /\ EndBeforeStart
          => /\ fn_out.called = << >>
             /\ fn_out.reply =
                   IF NaiveDate_from_str(fn_in.params.start_at.val) < FirstDay
                   THEN Rejected("PastDate(start_at)")
                   ELSE Rejected("InvalidDateRange")

\* C24 witness: a request with end_at earlier than a start_at from
\* 1999-01-04 on was rejected, on the store that holds snapshots
W_C24_InvertedRangeRejected ==
    /\ EndBeforeStart
    /\ NaiveDate_from_str(fn_in.params.start_at.val) >= FirstDay
    /\ store # << >>
    /\ fn_out.reply.tag = "reject"

\* the rate maps of a reply, one per date
RateMaps(body) ==
    IF "date" \in DOMAIN body THEN { body.rates }
    ELSE { body.rates[v] : v \in DOMAIN body.rates }

\* C25 (as claimed): with a symbols parameter (and no base), try_reply on
\* a sequence of one Date or more rejects with InvalidSymbol or replies
\* with rate maps whose keys are exactly the requested symbols.  The
\* symbols are looked for in the first Date only.
CE_C25_RateMapKeysAreSymbols ==
    ( /\ fn_in.op = "try_reply"
      /\ fn_in.dates # << >>
      /\ fn_in.params.symbols.some
      /\ ~fn_in.params.base.some )
    => \/ fn_out = Rejected("InvalidSymbol")
       \/ /\ fn_out.tag = "ok"
          /\ \A m \in RateMaps(fn_out.body) :
                DOMAIN m = { fn_in.params.symbols.val[j] :
                                 j \in 1..Len(fn_in.params.symbols.val) }

\* C26: try_reply on an empty sequence of Dates returns an error, whatever
\* the parameters; a reply is built from one Date or more, and
\* history_handler rejects when get_range_rates finds nothing.
T_C26_NoReplyFromNothing ==
    /\ fn_in.op = "try_reply"
       => /\ fn_in.dates = << >> => fn_out = Rejected("Unhandled")
          /\ fn_out.tag = "ok" => Len(fn_in.dates) >= 1
    /\ ( /\ fn_in.op = "history_handler"
         /\ fn_out.called # << >>
         /\ get_range_rates(store, fn_out.called[1][1], fn_out.called[1][2])
               = [tag |-> "ok", val |-> << >>] )
       => fn_out.reply = Rejected("Unhandled")

\* C26 witness: try_reply was called on an empty sequence with a symbols
\* and a base parameter
W_C26_EmptyDatesWithParams ==
    /\ fn_in.op = "try_reply"
    /\ fn_in.dates = << >>
    /\ fn_in.params.symbols.some /\ fn_in.params.base.some
    /\ fn_out.tag = "reject"

\* C27 (as claimed): at no point of bootstrap_new does the store hold the
\* `current` record while a snapshot of the fetched history is unwritten.
\* bootstrap_new puts `current` before its loop.
CE_C27_BootstrapPointerAfterSnapshots ==
    (pc \in BootPcs /\ HasPointer)
    => \A k \in 1..Len(dates) : date_as_key(dates[k].value) \in DOMAIN store

\* C28 (as claimed): in every stored snapshot each currency code occurs at
\* most once, EUR exactly once.  EUR is pushed onto a payload that has it.
CE_C28_CurrencyCodesUnique ==
    \A snap \in Snapshots :
        /\ \A i, j \in 1..Len(snap.currencies) :
              snap.currencies[i].name = snap.currencies[j].name => i = j
        /\ Cardinality({ i \in 1..Len(snap.currencies) :
                           snap.currencies[i].name = "EUR" }) = 1

\* the date held by the `current` record of a store
PointerDateOf(s) == i64_from_be_bytes(s[CurrentKey].body) \div SecondsPerDay

\* a write to the `current` record that changes it moves it to a later date
PointerAdvances ==
    ( /\ HasPointer
      /\ CurrentKey \in DOMAIN store'
      /\ store'[CurrentKey] # store[CurrentKey] )
    => PointerDateOf(store') > PointerDateOf(store)

\* C29 (as claimed): across every write to the `current` record the date it
\* holds never becomes earlier.  On a window supplied oldest first the loop
\* of update moves the pointer from the newest date down.
CE_C29_PointerOnlyAdvances == [][PointerAdvances]_vars

\* C29 (amended): the same when the feeds are supplied newest first, and
\* the record, once written, is never removed.
T_C29_PointerOnlyAdvances ==
    [][ /\ feed_order = "newest_first" => PointerAdvances
        /\ HasPointer => CurrentKey \in DOMAIN store' ]_vars

\* C29 witness: on feeds supplied newest first a tick has written the
\* pointer twice or more, and the pointer is at the greatest of the three
\* or more stored dates
W_C29_PointerWrittenAcrossTicks ==
    /\ feed_order = "newest_first"
    /\ run = "update" /\ result = "ok" /\ pc = "idle"
    /\ Cardinality({ k \in 1..Len(log) : log[k].op = "set_current" }) >= 2
    /\ Cardinality(Snapshots) >= 3
    /\ PointerTargetExists
    /\ PointerDay = SetMax({ value_as_date(snap) : snap \in Snapshots })

\* the remote source has published its last date
SourceFinal == Cardinality(DOMAIN published) = MaxPublished

\* no procedure is running and the local current date is the remote latest
Converged ==
    /\ pc = "idle"
    /\ get_current_rates(store).tag = "ok"
    /\ PointerDay = SetMax(DOMAIN published)

\* C30: when the remote source has stopped publishing and every fetch and
\* store operation succeeds, the ticks bring the local current date to the
\* remote latest date for good, and from then on a tick returns Ok and
\* leaves the store as it is.
T_C30_Convergence ==
    /\ [](SourceFinal => <>[]Converged)
    /\ [][ (SourceFinal /\ Converged)
           => /\ store' = store
              /\ UpdateStart => (result' = "ok" /\ pc' = "idle") ]_vars

\* C30 witness: the source has stopped, and a tick that wrote records has
\* brought the local current date to the remote latest date
W_C30_ConvergedByTick ==
    /\ SourceFinal /\ Converged
    /\ run = "update" /\ result = "ok"
    /\ log # << >>

\* how often x occurs in the list v
Occurrences(v, x) == Cardinality({ i \in 1..Len(v) : v[i] = x })

\* w holds the elements of v, each as often as v does
IsPermutation(v, w) ==
    /\ Len(v) = Len(w)
    /\ \A i \in 1..Len(v) : Occurrences(w, v[i]) = Occurrences(v, v[i])

\* a call of sort_currencies on a list that holds EUR, USD and GBP
SortedWithAllThree ==
    /\ fn_in.op = "sort_currencies"
    /\ \A c \in {EUR, USD, GBP} : Occurrences(fn_in.currencies, c) = 1

\* C31: sort_currencies on a list that holds EUR, USD and GBP, in any order,
\* leaves EUR at position 0, USD at position 1 and GBP at position 2, and
\* the list a permutation of what it was.
CE_C31_EurUsdGbpFirst ==
    SortedWithAllThree
    => /\ fn_out.val[1] = EUR
       /\ fn_out.val[2] = USD
       /\ fn_out.val[3] = GBP
       /\ IsPermutation(fn_in.currencies, fn_out.val)

====
